---- MODULE Spec2Model ----
(***************************************************************************)
(* costx: single-transaction analysis for EVM chains (src/src/evm.rs) and  *)
(* Solana (src/src/solana.rs).  The two managers are built once and are    *)
(* read-only afterwards; every analyze call is a stateless derivation over *)
(* the records the RPC node returns.  The node's answers are the           *)
(* environment's choice.                                                   *)
(*                                                                         *)
(* Integer widths are scaled: U256 is modelled with U256Bits bits and      *)
(* u64/i64 with U64Bits bits, so that overflow is reachable by the model   *)
(* checker.  Byte strings (topics, addresses, log data) keep their real    *)
(* lengths.                                                                *)
(***************************************************************************)
EXTENDS Integers, Sequences, FiniteSets, TLC

VARIABLES
    chains,          \* EVMChainManager.chains: key -> ChainConfig
    providers,       \* EVMChainManager.providers: the keys that have a Provider
    sol_chains,      \* SolanaChainManager.chains: key -> SolanaChainConfig
    sol_clients,     \* SolanaChainManager.clients: the keys that have an RpcClient
    overflow_checks, \* build profile: TRUE = debug (overflow panics), FALSE = release (wraps)
    pc,              \* "idle" | "returned"
    call,            \* the call in hand: its arguments and what the node answered
    ret,             \* what the call returned: Ok(value) | Err(error) | Panic
    rpc_calls        \* the Transaction Source calls the call issued, in order

vars == <<chains, providers, sol_chains, sol_clients, overflow_checks, pc, call, ret, rpc_calls>>

----------------------------------------------------------------------------
(* Bounds of the model *)

\* modelled width of U256 (256 in the program)
U256Bits == 12
\* modelled width of u64 / i64 (64 in the program)
U64Bits == 8
\* longest receipt log list
MaxLogs == 2
\* longest account-key list of a Solana message
MaxKeys == 2
\* longest pre/post native balance snapshot
MaxBalances == 2
\* longest pre/post token balance list
MaxTokenBalances == 1

----------------------------------------------------------------------------
(* Option<T> and Result<T> *)

None == <<>>
Some(v) == <<v>>
IsSome(o) == Len(o) = 1
IsNone(o) == Len(o) = 0
Unwrap(o) == o[1]

Ok(v) == [kind |-> "Ok", value |-> v]
Err(e) == [kind |-> "Err", error |-> e]
Panic(m) == [kind |-> "Panic", msg |-> m]

NoCall == [op |-> "none"]
NoRet == [kind |-> "none"]

RECURSIVE Pow(_, _)
Pow(b, n) == IF n = 0 THEN 1 ELSE b * Pow(b, n - 1)

RECURSIVE SeqsUpTo(_, _)
\* all sequences over S of length at most n
SeqsUpTo(S, n) ==
    IF n = 0 THEN {<<>>}
    ELSE LET shorter == SeqsUpTo(S, n - 1)
         IN shorter \cup {Append(s, x) : s \in {t \in shorter : Len(t) = n - 1}, x \in S}

Repeat(b, n) == [i \in 1..n |-> b]

----------------------------------------------------------------------------
(* U256 (ethers / uint crate) *)

U256Modulus == Pow(2, U256Bits)
U256Max == U256Modulus - 1
U256Half == Pow(2, U256Bits - 1)

\* uint's overflowing_mul: the wrapped product and the overflow flag
U256OverflowingMul(a, b) ==
    [result |-> (a * b) % U256Modulus, overflow |-> a * b > U256Max]

\* uint's Mul for U256: panic_on_overflow!, in every build profile
U256Mul(a, b) ==
    LET r == U256OverflowingMul(a, b)
    IN IF r.overflow THEN Panic("arithmetic operation overflow") ELSE Ok(r.result)

RECURSIVE BigEndianFold(_, _)
BigEndianFold(bytes, acc) ==
    IF bytes = <<>> THEN acc
    ELSE BigEndianFold(Tail(bytes), acc * 256 + Head(bytes))

\* U256::from_big_endian(slice)
U256FromBigEndian(bytes) == BigEndianFold(bytes, 0)

----------------------------------------------------------------------------
(* H256, H160 and their text form *)

HashBytes == 32
AddressBytes == 20

HexDigits == <<"0", "1", "2", "3", "4", "5", "6", "7", "8", "9", "a", "b", "c", "d", "e", "f">>

\* format!("{:?}", h) of a fixed hash: "0x" and two lower-case hex digits per byte
FormatHex(bytes) ==
    [i \in 1..(2 + 2 * Len(bytes)) |->
        IF i = 1 THEN "0"
        ELSE IF i = 2 THEN "x"
        ELSE LET b == bytes[((i - 3) \div 2) + 1]
             IN IF (i - 3) % 2 = 0 THEN HexDigits[(b \div 16) + 1] ELSE HexDigits[(b % 16) + 1]]

\* H160::from(H256): the low (last) 20 bytes
H160FromH256(h) == SubSeq(h, HashBytes - AddressBytes + 1, HashBytes)

\* keccak256("Transfer(address,address,uint256)") = 0xddf252ad...b3ef
TransferEventSignature ==
    <<221, 242, 82, 173, 27, 226, 200, 155, 105, 194, 176, 104, 252, 55, 141, 170,
      149, 43, 167, 241, 99, 196, 161, 22, 40, 245, 90, 77, 245, 35, 179, 239>>

----------------------------------------------------------------------------
(* EVMChainManager::new *)

ChainKeys == {"base", "arbitrum", "avalanche", "polygon", "optimism", "unichain", "ethereum"}

ChainNameOf(key) ==
    CASE key = "base" -> "Base"
      [] key = "arbitrum" -> "Arbitrum One"
      [] key = "avalanche" -> "Avalanche C-Chain"
      [] key = "polygon" -> "Polygon Mainnet"
      [] key = "optimism" -> "Optimism Mainnet"
      [] key = "unichain" -> "Unichain Mainnet"
      [] key = "ethereum" -> "Ethereum Mainnet"

\* the RPC URL strings a configuration may carry, and whether Url::parse accepts them
DefaultRpcUrl == "https://rpc.example.org"
RpcUrls == {DefaultRpcUrl, "not a url"}
ProviderTryFrom(url) == IF url = DefaultRpcUrl THEN Some([url |-> url]) ELSE None

\* EVMConfig values: every chain on a well-formed URL, or ethereum on a malformed one
EVMConfigs ==
    {[k \in ChainKeys |-> DefaultRpcUrl],
     [k \in ChainKeys |-> IF k = "ethereum" THEN "not a url" ELSE DefaultRpcUrl]}

NewChains(config) == [k \in ChainKeys |-> [name |-> ChainNameOf(k), rpc_url |-> config[k]]]

NewProviders(config) == {k \in ChainKeys : IsSome(ProviderTryFrom(NewChains(config)[k].rpc_url))}

----------------------------------------------------------------------------
(* EVM records the node returns *)

AddrA == Repeat(170, AddressBytes)
AddrB == Repeat(187, AddressBytes)
TokenX == Repeat(204, AddressBytes)
TokenY == Repeat(221, AddressBytes)

\* an address as an indexed topic: right-aligned in 32 bytes
TopicOf(addr) == Repeat(0, HashBytes - AddressBytes) \o addr
\* the same low 20 bytes under non-zero high bytes
DirtyTopicOf(addr) == Repeat(255, HashBytes - AddressBytes) \o addr
\* keccak256("Approval(address,address,uint256)") differs from the Transfer signature
OtherEventSignature == [TransferEventSignature EXCEPT ![1] = 140]

Log(address, topics, data) == [address |-> address, topics |-> topics, data |-> data]

Data31 == Repeat(0, 30) \o <<9>>
Data32 == Repeat(0, 30) \o <<1, 2>>
Data33 == Repeat(0, 31) \o <<5, 7>>

LogSet ==
    {Log(TokenX, <<TransferEventSignature, TopicOf(AddrA), TopicOf(AddrB)>>, Data32),
     Log(TokenY, <<TransferEventSignature, TopicOf(AddrA), TopicOf(AddrB)>>, Data33),
     Log(TokenX, <<TransferEventSignature, TopicOf(AddrA), TopicOf(AddrA)>>, Data31),
     Log(TokenY, <<TransferEventSignature, TopicOf(AddrA), TopicOf(AddrB)>>, <<>>),
     Log(TokenX, <<TransferEventSignature, TopicOf(AddrB), TopicOf(AddrA)>>, Data32),
     Log(TokenY, <<TransferEventSignature, DirtyTopicOf(AddrA), TopicOf(AddrB)>>, Data32),
     Log(TokenX, <<OtherEventSignature, TopicOf(AddrA), TopicOf(AddrB)>>, Data32),
     Log(TokenX, <<TransferEventSignature, TopicOf(AddrA), TopicOf(AddrB), TopicOf(AddrA)>>, Data33),
     Log(TokenX, <<TransferEventSignature, TopicOf(AddrA)>>, Data32),
     Log(TokenY, <<TransferEventSignature>>, Data32),
     Log(TokenY, <<>>, <<>>)}

\* the logs a receipt of the analyze handler carries
ReceiptLogSet ==
    {Log(TokenX, <<TransferEventSignature, TopicOf(AddrA), TopicOf(AddrB)>>, Data32),
     Log(TokenY, <<TransferEventSignature, TopicOf(AddrB), TopicOf(AddrA)>>, Data33),
     Log(TokenX, <<OtherEventSignature, TopicOf(AddrA), TopicOf(AddrB)>>, Data32)}

GasUsedValues == {None, Some(0), Some(21), Some(U256Half)}
GasPriceValues == {None, Some(0), Some(50), Some(U256Half)}

\* a transfer from AddrA to AddrB, or a contract creation (no recipient) by AddrB
Transactions ==
    {[from |-> f, to |-> IF f = AddrA THEN Some(AddrB) ELSE None, value |-> 7, gas |-> 100,
      gas_price |-> p] : f \in {AddrA, AddrB}, p \in GasPriceValues}

Receipts ==
    [status : {None, Some(0), Some(1), Some(2)}, gas_used : GasUsedValues,
     block_number : {Some(17)}, logs : SeqsUpTo(ReceiptLogSet, MaxLogs)]

\* what provider.get_transaction / get_transaction_receipt can answer
NotCalled == [kind |-> "NotCalled"]
TxResponses == {Err("provider error"), Ok(None)} \cup {Ok(Some(t)) : t \in Transactions}
ReceiptResponses == {Err("provider error"), Ok(None)} \cup {Ok(Some(r)) : r \in Receipts}

ValidTxHash == "0x1111111111111111111111111111111111111111111111111111111111111111"
TxHashStrings == {ValidTxHash, "0xzz"}
\* tx_hash.parse::<H256>()
ParseH256(s) == IF s = ValidTxHash THEN Some(Repeat(17, HashBytes)) ELSE None

ChainNameArgs == {"ethereum", "base", "foo"}

----------------------------------------------------------------------------
(* EVMChainManager::extract_erc20_transfers *)

IsTransferEventAnySignature(log) == Len(log.topics) >= 3

IsTransferEvent(log) ==
    Len(log.topics) >= 3 /\ log.topics[1] = TransferEventSignature

SenderIsFromUnfiltered(from_address, tx_sender_formatted) == TRUE

SenderIsFrom(from_address, tx_sender_formatted) == from_address = tx_sender_formatted

ParseAmount(data) ==
    IF Len(data) >= 32 THEN U256FromBigEndian(SubSeq(data, 1, 32)) ELSE 0

RECURSIVE ExtractErc20Loop(_, _, _)
ExtractErc20Loop(logs, tx_sender_formatted, transfers) ==
    IF logs = <<>> THEN transfers
    ELSE LET log == Head(logs)
             next ==
                 IF IsTransferEvent(log)
                 THEN LET token_address == FormatHex(log.address)
                          from_address == FormatHex(H160FromH256(log.topics[2]))
                          to_address == FormatHex(H160FromH256(log.topics[3]))
                      IN IF SenderIsFrom(from_address, tx_sender_formatted)
                         THEN Append(transfers,
                                     [token_address |-> token_address,
                                      from_address |-> from_address,
                                      to_address |-> to_address,
                                      amount |-> ParseAmount(log.data)])
                         ELSE transfers
                 ELSE transfers
         IN ExtractErc20Loop(Tail(logs), tx_sender_formatted, next)

ExtractErc20Transfers(logs, tx_sender) ==
    Ok(ExtractErc20Loop(logs, FormatHex(tx_sender), <<>>))

----------------------------------------------------------------------------
(* EVMChainManager::analyze_transaction *)

EvmStatusNonZeroIsSuccess(receipt) ==
    IF receipt.status # Some(0) THEN "Success" ELSE "Failed"

EvmStatus(receipt) ==
    IF receipt.status = Some(1) THEN "Success" ELSE "Failed"

ReceiptFieldsZeroGasWhenPending(receipt) ==
    IF IsSome(receipt)
    THEN [gas_used |-> Unwrap(receipt).gas_used,
          transaction_status |-> EvmStatus(Unwrap(receipt)),
          block_number |-> Unwrap(receipt).block_number]
    ELSE [gas_used |-> Some(0), transaction_status |-> "Pending", block_number |-> None]

ReceiptFields(receipt) ==
    IF IsSome(receipt)
    THEN [gas_used |-> Unwrap(receipt).gas_used,
          transaction_status |-> EvmStatus(Unwrap(receipt)),
          block_number |-> Unwrap(receipt).block_number]
    ELSE [gas_used |-> None, transaction_status |-> "Pending", block_number |-> None]

TransactionFeeZeroFilled(gas_used, gas_price) ==
    IF IsSome(gas_used) /\ IsSome(gas_price)
    THEN LET m == U256Mul(Unwrap(gas_used), Unwrap(gas_price))
         IN IF m.kind = "Panic" THEN m ELSE Ok(Some(m.value))
    ELSE Ok(Some(0))

TransactionFee(gas_used, gas_price) ==
    IF IsSome(gas_used) /\ IsSome(gas_price)
    THEN LET m == U256Mul(Unwrap(gas_used), Unwrap(gas_price))
         IN IF m.kind = "Panic" THEN m ELSE Ok(Some(m.value))
    ELSE Ok(None)

\* the handler reaches provider.get_transaction
EvmReachesTxFetch(chain_name, tx_hash) ==
    /\ chain_name \in providers
    /\ chain_name \in DOMAIN chains
    /\ IsSome(ParseH256(tx_hash))

\* the handler reaches provider.get_transaction_receipt
EvmReachesReceiptFetch(tx_resp) == tx_resp.kind = "Ok" /\ IsSome(tx_resp.value)

\* lines 176-214: the derivation over the fetched transaction and receipt
EvmDerive(chain_name, tx_hash, tx, receipt) ==
    LET f == ReceiptFields(receipt)
        fee == TransactionFee(f.gas_used, tx.gas_price)
        transfers == IF IsSome(receipt)
                     THEN ExtractErc20Transfers(Unwrap(receipt).logs, tx.from)
                     ELSE Ok(<<>>)
    IN IF fee.kind = "Panic" THEN fee
       ELSE IF transfers.kind # "Ok" THEN transfers
       ELSE Ok([tx_hash |-> tx_hash,
                chain_name |-> chains[chain_name].name,
                gas_used |-> f.gas_used,
                gas_price |-> tx.gas_price,
                gas_limit |-> tx.gas,
                transaction_fee |-> fee.value,
                erc20_transfers |-> transfers.value,
                transaction_status |-> f.transaction_status,
                block_number |-> f.block_number,
                from_address |-> FormatHex(tx.from),
                to_address |-> IF IsSome(tx.to) THEN Some(FormatHex(Unwrap(tx.to))) ELSE None,
                value |-> tx.value])

\* a failed receipt fetch taken for a missing receipt
EvmRunReceiptErrorAsNone(chain_name, tx_hash, tx_resp, receipt_resp) ==
    IF chain_name \notin providers
    THEN [ret |-> Err("Chain not supported"), rpc_calls |-> <<>>]
    ELSE IF chain_name \notin DOMAIN chains
    THEN [ret |-> Err("Chain config not found"), rpc_calls |-> <<>>]
    ELSE IF IsNone(ParseH256(tx_hash))
    THEN [ret |-> Err("invalid hash"), rpc_calls |-> <<>>]
    ELSE IF tx_resp.kind = "Err"
    THEN [ret |-> Err(tx_resp.error), rpc_calls |-> <<"get_transaction">>]
    ELSE IF IsNone(tx_resp.value)
    THEN [ret |-> Err("Transaction not found"), rpc_calls |-> <<"get_transaction">>]
    ELSE [ret |-> EvmDerive(chain_name, tx_hash, Unwrap(tx_resp.value),
                            IF receipt_resp.kind = "Err" THEN None ELSE receipt_resp.value),
          rpc_calls |-> <<"get_transaction", "get_transaction_receipt">>]

EvmRun(chain_name, tx_hash, tx_resp, receipt_resp) ==
    IF chain_name \notin providers
    THEN [ret |-> Err("Chain not supported"), rpc_calls |-> <<>>]
    ELSE IF chain_name \notin DOMAIN chains
    THEN [ret |-> Err("Chain config not found"), rpc_calls |-> <<>>]
    ELSE IF IsNone(ParseH256(tx_hash))
    THEN [ret |-> Err("invalid hash"), rpc_calls |-> <<>>]
    ELSE IF tx_resp.kind = "Err"
    THEN [ret |-> Err(tx_resp.error), rpc_calls |-> <<"get_transaction">>]
    ELSE IF IsNone(tx_resp.value)
    THEN [ret |-> Err("Transaction not found"), rpc_calls |-> <<"get_transaction">>]
    ELSE IF receipt_resp.kind = "Err"
    THEN [ret |-> Err(receipt_resp.error),
          rpc_calls |-> <<"get_transaction", "get_transaction_receipt">>]
    ELSE [ret |-> EvmDerive(chain_name, tx_hash, Unwrap(tx_resp.value), receipt_resp.value),
          rpc_calls |-> <<"get_transaction", "get_transaction_receipt">>]

EvmAnalyzeTransaction ==
    /\ pc = "idle"
    /\ \E chain_name \in ChainNameArgs, tx_hash \in TxHashStrings :
         \E tx_resp \in (IF EvmReachesTxFetch(chain_name, tx_hash)
                         THEN TxResponses ELSE {NotCalled}) :
           \E receipt_resp \in (IF EvmReachesReceiptFetch(tx_resp)
                                THEN ReceiptResponses ELSE {NotCalled}) :
             LET run == EvmRun(chain_name, tx_hash, tx_resp, receipt_resp)
             IN /\ call' = [op |-> "evm_analyze_transaction",
                            chain_name |-> chain_name, tx_hash |-> tx_hash,
                            tx_resp |-> tx_resp, receipt_resp |-> receipt_resp]
                /\ ret' = run.ret
                /\ rpc_calls' = run.rpc_calls
    /\ pc' = "returned"
    /\ UNCHANGED <<chains, providers, sol_chains, sol_clients, overflow_checks>>

\* extract_erc20_transfers applied to a receipt's logs and a sender
ExtractErc20TransfersCall ==
    /\ pc = "idle"
    /\ \E logs \in SeqsUpTo(LogSet, MaxLogs), tx_sender \in {AddrA, AddrB} :
         /\ call' = [op |-> "extract_erc20_transfers", logs |-> logs, tx_sender |-> tx_sender]
         /\ ret' = ExtractErc20Transfers(logs, tx_sender)
    /\ rpc_calls' = <<>>
    /\ pc' = "returned"
    /\ UNCHANGED <<chains, providers, sol_chains, sol_clients, overflow_checks>>

\* the caller takes the result; nothing of the call is kept
Return ==
    /\ pc = "returned"
    /\ pc' = "idle"
    /\ call' = NoCall
    /\ ret' = NoRet
    /\ rpc_calls' = <<>>
    /\ UNCHANGED <<chains, providers, sol_chains, sol_clients, overflow_checks>>

----------------------------------------------------------------------------
(* u64 / i64 arithmetic *)

U64Modulus == Pow(2, U64Bits)
U64Max == U64Modulus - 1
I64Half == Pow(2, U64Bits - 1)

\* `x as i64` of a u64: the same bits, read as two's complement
AsI64(u) == IF u >= I64Half THEN u - U64Modulus ELSE u

InI64(d) == -I64Half <= d /\ d < I64Half

\* two's-complement wrap of an integer into i64
WrapI64(d) == ((d + I64Half + U64Modulus) % U64Modulus) - I64Half

\* i64 `a - b`: panics on overflow with overflow checks (debug), wraps without (release)
I64Sub(a, b) ==
    IF InI64(a - b) THEN Ok(a - b)
    ELSE IF overflow_checks THEN Panic("attempt to subtract with overflow")
    ELSE Ok(WrapI64(a - b))

DecimalDigits == <<"0", "1", "2", "3", "4", "5", "6", "7", "8", "9">>

IsDigit(c) == \E d \in 1..10 : DecimalDigits[d] = c
DigitValue(c) == (CHOOSE d \in 1..10 : DecimalDigits[d] = c) - 1

RECURSIVE ParseDigits(_, _)
\* checked accumulation of decimal digits into a u64
ParseDigits(chars, acc) ==
    IF chars = <<>> THEN Some(acc)
    ELSE IF ~IsDigit(Head(chars)) THEN None
    ELSE LET next == acc * 10 + DigitValue(Head(chars))
         IN IF next > U64Max THEN None ELSE ParseDigits(Tail(chars), next)

\* str::parse::<u64>().ok(): an optional '+', then one or more digits, no overflow
ParseU64(chars) ==
    IF chars = <<>> THEN None
    ELSE LET digits == IF Head(chars) = "+" THEN Tail(chars) ELSE chars
         IN IF digits = <<>> THEN None ELSE ParseDigits(digits, 0)

RECURSIVE Decimal(_)
\* the decimal text of a natural number
Decimal(n) ==
    IF n < 10 THEN <<DecimalDigits[n + 1]>>
    ELSE Append(Decimal(n \div 10), DecimalDigits[(n % 10) + 1])

----------------------------------------------------------------------------
(* SolanaChainManager::new_with_config *)

SolChainKeys == {"mainnet"}

NewSolChains == [k \in SolChainKeys |-> [name |-> "Solana Mainnet", network |-> "mainnet-beta"]]

\* RpcClient::new never fails: every registered key gets a client
NewSolClients == DOMAIN NewSolChains

----------------------------------------------------------------------------
(* Solana records the node returns *)

\* account-key strings of a message and the public keys they decode to
KeyStrings == {"A1", "B2", "!bad"}
PubkeyFromStr(s) ==
    CASE s = "A1" -> Some(1)
      [] s = "B2" -> Some(2)
      [] OTHER -> None
PubkeyToString(p) == IF p = 1 THEN "A1" ELSE "B2"

\* EncodedTransaction::Json with UiMessage::Parsed or ::Raw, or a binary encoding
Encodings == {"JsonParsed", "JsonRaw", "Binary"}

\* (pre, post) native balances of one account
BalancePairs ==
    {<<100, 80>>, <<50, 70>>, <<5, 5>>, <<0, I64Half>>, <<I64Half, 1>>, <<U64Max, 0>>}

\* a snapshot: aligned pairs, then possibly one more entry on either side
Snapshots ==
    {[pre |-> [i \in 1..Len(ps) |-> ps[i][1]] \o preTail,
      post |-> [i \in 1..Len(ps) |-> ps[i][2]] \o postTail] :
        ps \in SeqsUpTo(BalancePairs, MaxBalances),
        preTail \in {<<>>, <<3>>}, postTail \in {<<>>, <<4>>}}

TokenBalance(account_index, mint, amount) ==
    [account_index |-> account_index, mint |-> mint, amount |-> amount]

TokenEntries ==
    {TokenBalance(0, "M", <<"5">>), TokenBalance(0, "M", <<"7">>),
     TokenBalance(0, "M", <<"x">>), TokenBalance(0, "M", Decimal(I64Half)),
     TokenBalance(1, "M", <<"5">>), TokenBalance(0, "N", <<"5">>)}

TokenLists == {None} \cup {Some(l) : l \in SeqsUpTo(TokenEntries, MaxTokenBalances)}

Meta(err, snapshot, pre_tok, post_tok, cu) ==
    [err |-> err, fee |-> 5,
     pre_balances |-> snapshot.pre, post_balances |-> snapshot.post,
     pre_token_balances |-> pre_tok, post_token_balances |-> post_tok,
     compute_units_consumed |-> cu]

Transaction(encoding, account_keys, meta) ==
    [slot |-> 11, block_time |-> Some(1700), encoding |-> encoding,
     account_keys |-> account_keys, meta |-> meta]

----------------------------------------------------------------------------
(* SolanaChainManager::get_account_keys *)

RECURSIVE FilterMapPubkeys(_)
\* .iter().filter_map(|key| Pubkey::from_str(key).ok()).collect()
FilterMapPubkeys(keys) ==
    IF keys = <<>> THEN <<>>
    ELSE LET p == PubkeyFromStr(Head(keys))
         IN (IF IsSome(p) THEN <<Unwrap(p)>> ELSE <<>>) \o FilterMapPubkeys(Tail(keys))

GetAccountKeys(transaction) ==
    IF transaction.encoding \in {"JsonParsed", "JsonRaw"}
    THEN Some(FilterMapPubkeys(transaction.account_keys))
    ELSE None

----------------------------------------------------------------------------
(* SolanaChainManager::extract_sol_balance_changes *)

RECURSIVE SolBalanceLoop(_, _, _, _, _)
\* for (i, account) in accounts.iter().enumerate(), from 0-based index i on
SolBalanceLoop(accounts, pre_balances, post_balances, i, balance_changes) ==
    IF i >= Len(accounts) THEN Ok(balance_changes)
    ELSE IF i < Len(pre_balances) /\ i < Len(post_balances)
    THEN LET pre_balance == pre_balances[i + 1]
             post_balance == post_balances[i + 1]
             balance_change == I64Sub(AsI64(post_balance), AsI64(pre_balance))
         IN IF balance_change.kind = "Panic" THEN balance_change
            ELSE SolBalanceLoop(accounts, pre_balances, post_balances, i + 1,
                    IF balance_change.value # 0
                    THEN Append(balance_changes,
                                [address |-> PubkeyToString(accounts[i + 1]),
                                 pre_balance |-> pre_balance,
                                 post_balance |-> post_balance,
                                 balance_change |-> balance_change.value])
                    ELSE balance_changes)
    ELSE SolBalanceLoop(accounts, pre_balances, post_balances, i + 1, balance_changes)

ExtractSolBalanceChanges(transaction) ==
    IF IsSome(transaction.meta)
    THEN LET meta == Unwrap(transaction.meta)
             accounts == GetAccountKeys(transaction)
         IN IF IsSome(accounts)
            THEN SolBalanceLoop(Unwrap(accounts), meta.pre_balances, meta.post_balances, 0, <<>>)
            ELSE Ok(<<>>)
    ELSE Ok(<<>>)

----------------------------------------------------------------------------
(* SolanaChainManager::extract_token_balance_changes *)

RECURSIVE PreBalancesMap(_, _)
\* HashMap insert per pre entry: a later entry with the same key replaces the earlier
PreBalancesMap(pre_token_balances, map) ==
    IF pre_token_balances = <<>> THEN map
    ELSE LET balance == Head(pre_token_balances)
             key == <<balance.account_index, balance.mint>>
         IN PreBalancesMap(Tail(pre_token_balances),
                [k \in DOMAIN map \cup {key} |-> IF k = key THEN balance ELSE map[k]])

\* lines 213-238: one post entry
TokenChangeOf(transaction, pre_balances_map, post_balance) ==
    LET key == <<post_balance.account_index, post_balance.mint>>
        accounts == GetAccountKeys(transaction)
    IN IF IsNone(accounts) THEN Ok(None)
       ELSE IF post_balance.account_index >= Len(Unwrap(accounts)) THEN Ok(None)
       ELSE LET account == Unwrap(accounts)[post_balance.account_index + 1]
                pre_amount == IF key \in DOMAIN pre_balances_map
                              THEN ParseU64(pre_balances_map[key].amount)
                              ELSE None
                post_amount == ParseU64(post_balance.amount)
            IN IF IsSome(pre_amount) /\ IsSome(post_amount)
               THEN LET d == I64Sub(AsI64(Unwrap(post_amount)), AsI64(Unwrap(pre_amount)))
                    IN IF d.kind = "Panic" THEN d
                       ELSE IF d.value # 0
                       THEN Ok(Some([address |-> PubkeyToString(account),
                                     mint |-> post_balance.mint,
                                     token_account |-> PubkeyToString(account),
                                     pre_balance |-> pre_amount,
                                     post_balance |-> post_amount,
                                     balance_change |-> Some(d.value)]))
                       ELSE Ok(None)
               ELSE Ok(None)

RECURSIVE TokenBalanceLoop(_, _, _, _)
TokenBalanceLoop(transaction, pre_balances_map, post_token_balances, token_changes) ==
    IF post_token_balances = <<>> THEN Ok(token_changes)
    ELSE LET c == TokenChangeOf(transaction, pre_balances_map, Head(post_token_balances))
         IN IF c.kind = "Panic" THEN c
            ELSE TokenBalanceLoop(transaction, pre_balances_map, Tail(post_token_balances),
                    IF IsSome(c.value) THEN Append(token_changes, Unwrap(c.value))
                    ELSE token_changes)

ExtractTokenBalanceChanges(transaction) ==
    IF IsSome(transaction.meta)
    THEN LET meta == Unwrap(transaction.meta)
         IN IF IsNone(meta.pre_token_balances)
            THEN Panic("called Option::unwrap() on a None value")
            ELSE IF IsNone(meta.post_token_balances)
            THEN Panic("called Option::unwrap() on a None value")
            ELSE TokenBalanceLoop(transaction,
                                  PreBalancesMap(Unwrap(meta.pre_token_balances), <<>>),
                                  Unwrap(meta.post_token_balances), <<>>)
    ELSE Ok(<<>>)

----------------------------------------------------------------------------
(* SolanaChainManager::analyze_transaction and analyze_transaction_details *)

SolStatusInverted(meta) == IF IsNone(meta.err) THEN "Failed" ELSE "Success"

SolStatus(meta) == IF IsNone(meta.err) THEN "Success" ELSE "Failed"

\* meta.compute_units_consumed.unwrap()
ComputeUnitsConsumed(meta) ==
    IF IsNone(meta.compute_units_consumed)
    THEN Panic("called Option::unwrap() on a None value")
    ELSE Ok(Unwrap(meta.compute_units_consumed))

AnalyzeTransactionDetails(signature, network, transaction) ==
    IF IsNone(transaction.meta) THEN Err("Transaction meta not found")
    ELSE LET meta == Unwrap(transaction.meta)
             transaction_status == SolStatus(meta)
             sol_balance_changes == ExtractSolBalanceChanges(transaction)
             token_balance_changes == ExtractTokenBalanceChanges(transaction)
             compute_units_consumed == ComputeUnitsConsumed(meta)
         IN IF sol_balance_changes.kind = "Panic" THEN sol_balance_changes
            ELSE IF token_balance_changes.kind = "Panic" THEN token_balance_changes
            ELSE IF compute_units_consumed.kind = "Panic" THEN compute_units_consumed
            ELSE Ok([signature |-> signature,
                     network |-> network,
                     slot |-> Some(transaction.slot),
                     transaction_fee |-> Some(meta.fee),
                     sol_balance_changes |-> sol_balance_changes.value,
                     token_balance_changes |-> token_balance_changes.value,
                     transaction_status |-> transaction_status,
                     block_time |-> transaction.block_time,
                     compute_units_consumed |-> Some(compute_units_consumed.value)])

ValidSignature == "5VERYLONGSIGNATURE"
SignatureStrings == {ValidSignature, "bad-sig"}
\* signature.parse::<Signature>()
ParseSignature(s) == IF s = ValidSignature THEN Some(1) ELSE None

NetworkArgs == {"mainnet", "foo"}

SolReachesFetch(network, signature) ==
    /\ network \in sol_clients
    /\ network \in DOMAIN sol_chains
    /\ IsSome(ParseSignature(signature))

\* the signature parsed before the network is looked up
SolRunParseFirst(network, signature, tx_resp) ==
    IF IsNone(ParseSignature(signature))
    THEN [ret |-> Err("Invalid signature"), rpc_calls |-> <<>>]
    ELSE IF network \notin sol_clients
    THEN [ret |-> Err("Network not supported"), rpc_calls |-> <<>>]
    ELSE IF network \notin DOMAIN sol_chains
    THEN [ret |-> Err("Network config not found"), rpc_calls |-> <<>>]
    ELSE IF tx_resp.kind = "Err"
    THEN [ret |-> Err(tx_resp.error), rpc_calls |-> <<"get_transaction_with_config">>]
    ELSE [ret |-> AnalyzeTransactionDetails(signature, sol_chains[network].network,
                                            tx_resp.value),
          rpc_calls |-> <<"get_transaction_with_config">>]

\* every failure of the client reported under one message
SolRunOneClientError(network, signature, tx_resp) ==
    IF network \notin sol_clients
    THEN [ret |-> Err("Network not supported"), rpc_calls |-> <<>>]
    ELSE IF network \notin DOMAIN sol_chains
    THEN [ret |-> Err("Network config not found"), rpc_calls |-> <<>>]
    ELSE IF IsNone(ParseSignature(signature))
    THEN [ret |-> Err("Invalid signature"), rpc_calls |-> <<>>]
    ELSE IF tx_resp.kind = "Err"
    THEN [ret |-> Err("rpc transport error"), rpc_calls |-> <<"get_transaction_with_config">>]
    ELSE [ret |-> AnalyzeTransactionDetails(signature, sol_chains[network].network,
                                            tx_resp.value),
          rpc_calls |-> <<"get_transaction_with_config">>]

SolRun(network, signature, tx_resp) ==
    IF network \notin sol_clients
    THEN [ret |-> Err("Network not supported"), rpc_calls |-> <<>>]
    ELSE IF network \notin DOMAIN sol_chains
    THEN [ret |-> Err("Network config not found"), rpc_calls |-> <<>>]
    ELSE IF IsNone(ParseSignature(signature))
    THEN [ret |-> Err("Invalid signature"), rpc_calls |-> <<>>]
    ELSE IF tx_resp.kind = "Err"
    THEN [ret |-> Err(tx_resp.error), rpc_calls |-> <<"get_transaction_with_config">>]
    ELSE [ret |-> AnalyzeTransactionDetails(signature, sol_chains[network].network,
                                            tx_resp.value),
          rpc_calls |-> <<"get_transaction_with_config">>]

\* the records the analyze handler is run on
HandlerSnapshots ==
    {[pre |-> <<100, 50>>, post |-> <<80, 70>>],
     [pre |-> <<5>>, post |-> <<5>>],
     [pre |-> <<I64Half>>, post |-> <<1>>]}

HandlerPreTokenLists == {None, Some(<<>>), Some(<<TokenBalance(0, "M", <<"5">>)>>)}
HandlerPostTokenLists == {None, Some(<<>>), Some(<<TokenBalance(0, "M", <<"7">>)>>)}

HandlerMetas ==
    {None} \cup
    {Some(Meta(err, s, pt, qt, cu)) :
        err \in {None, Some("InstructionError")}, s \in HandlerSnapshots,
        pt \in HandlerPreTokenLists, qt \in HandlerPostTokenLists,
        cu \in {None, Some(9)}}

HandlerTransactions ==
    {Transaction(e, k, m) :
        e \in {"JsonParsed", "Binary"}, k \in {<<"A1", "B2">>, <<"A1">>}, m \in HandlerMetas}

\* get_transaction_with_config fails on a transport failure and on the node's null
\* result for a signature it does not know
SolClientErrors == {"rpc transport error", "rpc null result"}

SolTxResponses == {Err(e) : e \in SolClientErrors} \cup {Ok(t) : t \in HandlerTransactions}

SolAnalyzeTransaction ==
    /\ pc = "idle"
    /\ \E network \in NetworkArgs, signature \in SignatureStrings :
         \E tx_resp \in (IF SolReachesFetch(network, signature)
                         THEN SolTxResponses ELSE {NotCalled}) :
           LET run == SolRun(network, signature, tx_resp)
           IN /\ call' = [op |-> "sol_analyze_transaction",
                          network |-> network, signature |-> signature,
                          tx_resp |-> tx_resp]
              /\ ret' = run.ret
              /\ rpc_calls' = run.rpc_calls
    /\ pc' = "returned"
    /\ UNCHANGED <<chains, providers, sol_chains, sol_clients, overflow_checks>>

\* extract_sol_balance_changes applied to a fetched record
ExtractSolBalanceChangesCall ==
    /\ pc = "idle"
    /\ \E e \in Encodings, keys \in SeqsUpTo(KeyStrings, MaxKeys), s \in Snapshots :
         LET transaction ==
                 Transaction(e, keys, Some(Meta(None, s, Some(<<>>), Some(<<>>), Some(9))))
         IN /\ call' = [op |-> "extract_sol_balance_changes", transaction |-> transaction]
            /\ ret' = ExtractSolBalanceChanges(transaction)
    /\ rpc_calls' = <<>>
    /\ pc' = "returned"
    /\ UNCHANGED <<chains, providers, sol_chains, sol_clients, overflow_checks>>

\* extract_token_balance_changes applied to a fetched record
ExtractTokenBalanceChangesCall ==
    /\ pc = "idle"
    /\ \E e \in Encodings, keys \in SeqsUpTo(KeyStrings, MaxKeys),
          pt \in TokenLists, qt \in TokenLists :
         LET transaction ==
                 Transaction(e, keys,
                     Some(Meta(None, [pre |-> <<5>>, post |-> <<5>>], pt, qt, Some(9))))
         IN /\ call' = [op |-> "extract_token_balance_changes", transaction |-> transaction]
            /\ ret' = ExtractTokenBalanceChanges(transaction)
    /\ rpc_calls' = <<>>
    /\ pc' = "returned"
    /\ UNCHANGED <<chains, providers, sol_chains, sol_clients, overflow_checks>>

----------------------------------------------------------------------------
(* Specifications *)

\* both managers built from a configuration, in either build profile; no call in hand
Init ==
    /\ \E config \in EVMConfigs :
         /\ chains = NewChains(config)
         /\ providers = NewProviders(config)
    /\ sol_chains = NewSolChains
    /\ sol_clients = NewSolClients
    /\ overflow_checks \in BOOLEAN
    /\ pc = "idle"
    /\ call = NoCall
    /\ ret = NoRet
    /\ rpc_calls = <<>>

\* the two public analyze handlers
Next == EvmAnalyzeTransaction \/ SolAnalyzeTransaction \/ Return
Spec == Init /\ [][Next]_vars

\* extract_erc20_transfers on its own
NextErc20 == ExtractErc20TransfersCall \/ Return
SpecErc20 == Init /\ [][NextErc20]_vars

\* extract_sol_balance_changes on its own
NextSolBalance == ExtractSolBalanceChangesCall \/ Return
SpecSolBalance == Init /\ [][NextSolBalance]_vars

\* extract_token_balance_changes on its own
NextTokenBalance == ExtractTokenBalanceChangesCall \/ Return
SpecTokenBalance == Init /\ [][NextTokenBalance]_vars

----------------------------------------------------------------------------
(* Views of the call in hand *)

EvmReturned == pc = "returned" /\ call.op = "evm_analyze_transaction"

\* the handler fetched a transaction and got an answer to the receipt request
EvmDerived ==
    /\ EvmReturned
    /\ call.tx_resp.kind = "Ok" /\ IsSome(call.tx_resp.value)
    /\ call.receipt_resp.kind = "Ok"

EvmTx == Unwrap(call.tx_resp.value)
EvmReceipt == call.receipt_resp.value
\* gas consumed as the node reported it: absent without a receipt
EvmGasUsed == IF IsSome(EvmReceipt) THEN Unwrap(EvmReceipt).gas_used ELSE None

SolReturned == pc = "returned" /\ call.op = "sol_analyze_transaction"

\* the handler fetched a record that carries metadata
SolWithMeta ==
    /\ SolReturned
    /\ call.tx_resp.kind = "Ok" /\ IsSome(call.tx_resp.value.meta)

SolMeta == Unwrap(call.tx_resp.value.meta)

----------------------------------------------------------------------------
(* C1 - C4: the EVM handler *)

\* C1: whenever gas_used and gas_price are both present, analyze_transaction
\* returns an analysis whose transaction_fee is the exact product
\* gas_used * gas_price; the multiplication never wraps, truncates or aborts.
C1_FeeIsExactProduct ==
    (EvmDerived /\ IsSome(EvmGasUsed) /\ IsSome(EvmTx.gas_price))
        => /\ ret.kind = "Ok"
           /\ ret.value.transaction_fee = Some(Unwrap(EvmGasUsed) * Unwrap(EvmTx.gas_price))

\* C2: in every returned analysis the fee is absent exactly when gas_used or
\* gas_price is absent (a receipt without gas_used and a transaction without
\* gas_price included); an absent fee is never a fabricated value.
C2_FeeAbsentIffOperandAbsent ==
    (EvmDerived /\ ret.kind = "Ok")
        => /\ ret.value.gas_used = EvmGasUsed
           /\ ret.value.gas_price = EvmTx.gas_price
           /\ IsNone(ret.value.transaction_fee)
                <=> (IsNone(EvmGasUsed) \/ IsNone(EvmTx.gas_price))

\* a receipt without gas_used under a transaction with a gas price: no fee
C2_Witness ==
    /\ EvmDerived /\ ret.kind = "Ok"
    /\ IsSome(EvmReceipt) /\ IsNone(EvmGasUsed) /\ IsSome(EvmTx.gas_price)
    /\ IsNone(ret.value.transaction_fee)

\* C3: the status of every returned analysis is a function of the record.
\* EVM: no receipt -> Pending, receipt with status 1 -> Success, any other
\* receipt -> Failed.  Solana: no execution error -> Success, an error ->
\* Failed, never Pending.  No other status value is emitted.
C3_StatusMapping ==
    /\ (EvmDerived /\ ret.kind = "Ok")
          => ret.value.transaction_status =
                (IF IsNone(EvmReceipt) THEN "Pending"
                 ELSE IF Unwrap(EvmReceipt).status = Some(1) THEN "Success"
                 ELSE "Failed")
    /\ (SolWithMeta /\ ret.kind = "Ok")
          => ret.value.transaction_status =
                (IF IsNone(SolMeta.err) THEN "Success" ELSE "Failed")
    /\ ((EvmReturned \/ SolReturned) /\ ret.kind = "Ok")
          => ret.value.transaction_status \in {"Pending", "Success", "Failed"}

\* a receipt whose status flag is neither 0 nor 1 is reported Failed
C3_Witness ==
    /\ EvmDerived /\ ret.kind = "Ok"
    /\ IsSome(EvmReceipt) /\ Unwrap(EvmReceipt).status = Some(2)
    /\ ret.value.transaction_status = "Failed"

\* C4: with the transaction fetched and no receipt, the call returns an
\* analysis (not an error): Pending, no gas_used, no fee, no transfers, no
\* block number; sender, recipient, value, gas limit and gas price are the
\* transaction's.
C4_PendingWithoutReceipt ==
    (EvmDerived /\ IsNone(EvmReceipt))
        => /\ ret.kind = "Ok"
           /\ ret.value.transaction_status = "Pending"
           /\ ret.value.gas_used = None
           /\ ret.value.transaction_fee = None
           /\ ret.value.erc20_transfers = <<>>
           /\ ret.value.block_number = None
           /\ ret.value.from_address = FormatHex(EvmTx.from)
           /\ ret.value.to_address =
                (IF IsSome(EvmTx.to) THEN Some(FormatHex(Unwrap(EvmTx.to))) ELSE None)
           /\ ret.value.value = EvmTx.value
           /\ ret.value.gas_limit = EvmTx.gas
           /\ ret.value.gas_price = EvmTx.gas_price

\* a pending transaction that carries a gas price
C4_Witness ==
    /\ EvmDerived /\ IsNone(EvmReceipt) /\ IsSome(EvmTx.gas_price)
    /\ ret.kind = "Ok" /\ ret.value.transaction_status = "Pending"

----------------------------------------------------------------------------
(* C5, C6: extract_erc20_transfers *)

Erc20Returned ==
    pc = "returned" /\ call.op = "extract_erc20_transfers" /\ ret.kind = "Ok"

\* at least three topics, the first being the Transfer signature
QualifiesAsTransfer(log) ==
    /\ Len(log.topics) >= 3
    /\ \A i \in 1..32 : log.topics[1][i] = TransferEventSignature[i]

\* the lower 20 bytes of a 32-byte topic
LowTwentyBytes(topic) == [i \in 1..20 |-> topic[12 + i]]

RECURSIVE WeightedSum(_, _)
\* the sum of data[i] * 256^(32 - i) over the positions in idx
WeightedSum(data, idx) ==
    IF idx = {} THEN 0
    ELSE LET i == CHOOSE j \in idx : TRUE
         IN data[i] * Pow(256, 32 - i) + WeightedSum(data, idx \ {i})

\* the big-endian unsigned integer of the first 32 bytes, zero for shorter data
AmountOfData(data) ==
    IF Len(data) >= 32 THEN WeightedSum(data, {i \in 1..32 : data[i] # 0}) ELSE 0

\* C5: only logs with at least three topics and the Transfer signature as the
\* first topic yield a transfer; each retained transfer carries the big-endian
\* integer of the first 32 data bytes, or zero when the data is shorter than
\* 32 bytes, and every such log sent by the sender is retained with that amount.
C5_TransferClassificationAndAmount ==
    Erc20Returned =>
        /\ \A k \in 1..Len(ret.value) :
             \E i \in 1..Len(call.logs) :
                /\ QualifiesAsTransfer(call.logs[i])
                /\ ret.value[k].token_address = FormatHex(call.logs[i].address)
                /\ ret.value[k].to_address = FormatHex(LowTwentyBytes(call.logs[i].topics[3]))
                /\ ret.value[k].amount = AmountOfData(call.logs[i].data)
        /\ \A i \in 1..Len(call.logs) :
             (/\ QualifiesAsTransfer(call.logs[i])
              /\ LowTwentyBytes(call.logs[i].topics[2]) = call.tx_sender)
                => \E k \in 1..Len(ret.value) :
                      /\ ret.value[k].token_address = FormatHex(call.logs[i].address)
                      /\ ret.value[k].amount = AmountOfData(call.logs[i].data)

\* a log with another signature is dropped beside a retained transfer whose
\* data is shorter than 32 bytes (amount zero)
C5_Witness ==
    /\ Erc20Returned
    /\ \E i \in 1..Len(call.logs) :
          Len(call.logs[i].topics) >= 3 /\ ~QualifiesAsTransfer(call.logs[i])
    /\ \E i \in 1..Len(call.logs) :
          QualifiesAsTransfer(call.logs[i]) /\ Len(call.logs[i].data) = 31
    /\ Len(ret.value) = 1 /\ ret.value[1].amount = 0

LowerHexChars ==
    {"0", "1", "2", "3", "4", "5", "6", "7", "8", "9", "a", "b", "c", "d", "e", "f", "x"}

\* the qualifying logs whose from address is the sender, in log order
SenderTransfers ==
    LET Test(log) == /\ QualifiesAsTransfer(log)
                     /\ LowTwentyBytes(log.topics[2]) = call.tx_sender
    IN SelectSeq(call.logs, Test)

\* C6: the output holds exactly one transfer per qualifying log whose from
\* address (lower 20 bytes of topic 1) is the sender, in receipt log order, and
\* nothing else; addresses are in lower-case text form.
C6_TransfersOfSenderInOrder ==
    Erc20Returned =>
        /\ Len(ret.value) = Len(SenderTransfers)
        /\ \A k \in 1..Len(ret.value) :
              /\ ret.value[k].from_address = FormatHex(call.tx_sender)
              /\ \A c \in 1..Len(ret.value[k].from_address) :
                    ret.value[k].from_address[c] \in LowerHexChars
              /\ ret.value[k].token_address = FormatHex(SenderTransfers[k].address)
              /\ ret.value[k].to_address =
                    FormatHex(LowTwentyBytes(SenderTransfers[k].topics[3]))

\* two qualifying logs, one from the sender (under non-zero high topic bytes)
\* and one from another address: one transfer out
C6_Witness ==
    /\ Erc20Returned
    /\ Len(call.logs) = 2
    /\ \A i \in 1..2 : QualifiesAsTransfer(call.logs[i])
    /\ \E i \in 1..2 : LowTwentyBytes(call.logs[i].topics[2]) # call.tx_sender
    /\ \E i \in 1..2 : /\ LowTwentyBytes(call.logs[i].topics[2]) = call.tx_sender
                       /\ call.logs[i].topics[2][1] # 0
    /\ Len(ret.value) = 1

----------------------------------------------------------------------------
(* C7, C8: extract_sol_balance_changes *)

SolBalanceReturned == pc = "returned" /\ call.op = "extract_sol_balance_changes"

CallMeta == Unwrap(call.transaction.meta)

\* the (pre, post) pairs of the indices at which both snapshots have an entry
\* and the balances differ, in index order
DifferingBalances ==
    LET pre == CallMeta.pre_balances
        post == CallMeta.post_balances
        n == IF Len(pre) < Len(post) THEN Len(pre) ELSE Len(post)
        Differs(p) == p[1] # p[2]
    IN SelectSeq([i \in 1..n |-> <<pre[i], post[i]>>], Differs)

\* C7: whatever the account-key list and the encoding, the returned native
\* balance changes are exactly the indices present in both snapshots whose post
\* balance differs from the pre balance.
C7_ChangeIffBalancesDiffer ==
    (SolBalanceReturned /\ ret.kind = "Ok")
        => [k \in 1..Len(ret.value) |-> <<ret.value[k].pre_balance, ret.value[k].post_balance>>]
              = DifferingBalances

\* C8: the extraction never aborts, and every emitted change carries the true
\* signed difference post_balance - pre_balance, for all u64 balances.
C8_DeltaIsTrueDifference ==
    SolBalanceReturned
        => /\ ret.kind = "Ok"
           /\ \A k \in 1..Len(ret.value) :
                 ret.value[k].balance_change
                    = ret.value[k].post_balance - ret.value[k].pre_balance

----------------------------------------------------------------------------
(* C9: extract_token_balance_changes *)

TokenBalanceReturned == pc = "returned" /\ call.op = "extract_token_balance_changes"

\* a pre entry with the same (account index, mint) exists, both amounts parse,
\* and the amounts differ
TokenEntryChanged(post_balance) ==
    \E j \in 1..Len(Unwrap(CallMeta.pre_token_balances)) :
        LET pre_balance == Unwrap(CallMeta.pre_token_balances)[j]
        IN /\ pre_balance.account_index = post_balance.account_index
           /\ pre_balance.mint = post_balance.mint
           /\ IsSome(ParseU64(pre_balance.amount))
           /\ IsSome(ParseU64(post_balance.amount))
           /\ ParseU64(pre_balance.amount) # ParseU64(post_balance.amount)

ChangedTokenEntries == SelectSeq(Unwrap(CallMeta.post_token_balances), TokenEntryChanged)

\* C9: the returned token balance changes are exactly the post entries that
\* have a pre entry with the same (account index, mint), whose two amounts
\* parse and differ; each carries pre, post and delta = post - pre.
C9_TokenChangeIffParsedAndDiffer ==
    (TokenBalanceReturned /\ ret.kind = "Ok")
        => /\ Len(ret.value) = Len(ChangedTokenEntries)
           /\ \A k \in 1..Len(ret.value) :
                 /\ ret.value[k].mint = ChangedTokenEntries[k].mint
                 /\ ret.value[k].post_balance = ParseU64(ChangedTokenEntries[k].amount)
                 /\ IsSome(ret.value[k].pre_balance)
                 /\ ret.value[k].balance_change
                       = Some(Unwrap(ret.value[k].post_balance) - Unwrap(ret.value[k].pre_balance))

----------------------------------------------------------------------------
(* C10: analyze_transaction_details without compute units *)

\* C10: with metadata present, both token balance lists present and the
\* compute-units-consumed field absent, the analysis completes and returns a
\* result whose compute_units_consumed is absent, status and fee as usual.
C10_AbsentComputeUnitsStillReturns ==
    (/\ SolWithMeta
     /\ IsNone(SolMeta.compute_units_consumed)
     /\ IsSome(SolMeta.pre_token_balances) /\ IsSome(SolMeta.post_token_balances)
     /\ \A i \in 1..Len(SolMeta.pre_balances) : SolMeta.pre_balances[i] < I64Half)
        => /\ ret.kind = "Ok"
           /\ ret.value.compute_units_consumed = None
           /\ ret.value.transaction_fee = Some(SolMeta.fee)
           /\ ret.value.transaction_status = (IF IsNone(SolMeta.err) THEN "Success" ELSE "Failed")

----------------------------------------------------------------------------
(* C11: analyze_transaction_details without a token balance list *)

\* C11: with metadata present and the pre- or the post-token-balance list
\* absent (compute units present, balances below 2^63), the analysis completes
\* and returns fee, status and the balance changes.
C11_AbsentTokenListStillReturns ==
    (/\ SolWithMeta
     /\ IsNone(SolMeta.pre_token_balances) \/ IsNone(SolMeta.post_token_balances)
     /\ IsSome(SolMeta.compute_units_consumed)
     /\ \A i \in 1..Len(SolMeta.pre_balances) : SolMeta.pre_balances[i] < I64Half)
        => /\ ret.kind = "Ok"
           /\ ret.value.transaction_fee = Some(SolMeta.fee)
           /\ ret.value.transaction_status = (IF IsNone(SolMeta.err) THEN "Success" ELSE "Failed")

----------------------------------------------------------------------------
(* C12 - C14, C16: errors of the two handlers *)

\* C12: a call with a key that is not registered returns the unsupported-chain
\* error, well-formed reference or not, and no Transaction Source call is
\* issued during the call or left behind after it.
C12_UnregisteredKeyNoSourceCall ==
    /\ (EvmReturned /\ call.chain_name \notin DOMAIN chains)
          => /\ ret = Err("Chain not supported")
             /\ rpc_calls = <<>>
             /\ call.tx_resp = NotCalled /\ call.receipt_resp = NotCalled
    /\ (SolReturned /\ call.network \notin DOMAIN sol_chains)
          => /\ ret = Err("Network not supported")
             /\ rpc_calls = <<>>
             /\ call.tx_resp = NotCalled
    /\ pc = "idle" => rpc_calls = <<>>

\* an unregistered network together with a malformed signature
C12_Witness ==
    /\ SolReturned
    /\ call.network = "foo" /\ IsNone(ParseSignature(call.signature))
    /\ ret = Err("Network not supported") /\ rpc_calls = <<>>

\* the first failure a call meets, from its arguments and the node's answers
FailureCause ==
    IF EvmReturned
    THEN IF call.chain_name \notin DOMAIN chains THEN "UnsupportedChain"
         ELSE IF call.chain_name \notin providers THEN "none"
         ELSE IF IsNone(ParseH256(call.tx_hash)) THEN "InvalidReference"
         ELSE IF call.tx_resp.kind = "Err" THEN "SourceUnavailable"
         ELSE IF IsNone(call.tx_resp.value) THEN "NotFound"
         ELSE IF call.receipt_resp.kind = "Err" THEN "SourceUnavailable"
         ELSE "none"
    ELSE IF SolReturned
    THEN IF call.network \notin DOMAIN sol_chains THEN "UnsupportedChain"
         ELSE IF IsNone(ParseSignature(call.signature)) THEN "InvalidReference"
         ELSE IF call.tx_resp = Err("rpc null result") THEN "NotFound"
         ELSE IF call.tx_resp.kind = "Err" THEN "SourceUnavailable"
         ELSE IF IsNone(call.tx_resp.value.meta) THEN "TransactionUnavailable"
         ELSE "none"
    ELSE "none"

\* what a caller reads off the returned error
ErrorKind(error) ==
    CASE error \in {"Chain not supported", "Network not supported"} -> "UnsupportedChain"
      [] error \in {"invalid hash", "Invalid signature"} -> "InvalidReference"
      [] error \in {"Transaction not found", "rpc null result"} -> "NotFound"
      [] error \in {"provider error", "rpc transport error"} -> "SourceUnavailable"
      [] error = "Transaction meta not found" -> "TransactionUnavailable"
      [] OTHER -> "other"

C14_SourceFailureIsAnError ==
    /\ (EvmReturned /\ call.tx_resp.kind = "Err") => ret = Err(call.tx_resp.error)
    /\ (EvmReturned /\ call.receipt_resp.kind = "Err") => ret = Err(call.receipt_resp.error)
    /\ (SolReturned /\ call.tx_resp.kind = "Err") => ret = Err(call.tx_resp.error)

\* the receipt fetch fails after the transaction was fetched
C14_Witness ==
    /\ EvmReturned
    /\ call.tx_resp.kind = "Ok" /\ IsSome(call.tx_resp.value)
    /\ call.receipt_resp.kind = "Err"
    /\ rpc_calls = <<"get_transaction", "get_transaction_receipt">>
    /\ ret.kind = "Err"

\* C16: analyze_transaction never answers 'Chain not supported' for a key of
\* the chain registry (the chains get_supported_chains lists).
C16_RegisteredChainIsAccepted ==
    (EvmReturned /\ call.chain_name \in DOMAIN chains)
        => ~(ret.kind = "Err" /\ ret.error = "Chain not supported")

----------------------------------------------------------------------------
(* C15: addresses of the balance changes *)

\* C15: every native balance change is reported under the account key that
\* stands, in the record's account-key list, at the index its pre and post
\* balance were read from; every token balance change under the key at its
\* entry's account index.
C15_AddressIsKeyAtIndex ==
    /\ (SolBalanceReturned /\ ret.kind = "Ok")
          => \A k \in 1..Len(ret.value) :
                \E i \in 1..Len(call.transaction.account_keys) :
                   /\ i <= Len(CallMeta.pre_balances) /\ i <= Len(CallMeta.post_balances)
                   /\ CallMeta.pre_balances[i] = ret.value[k].pre_balance
                   /\ CallMeta.post_balances[i] = ret.value[k].post_balance
                   /\ call.transaction.account_keys[i] = ret.value[k].address
    /\ (TokenBalanceReturned /\ ret.kind = "Ok")
          => \A k \in 1..Len(ret.value) :
                \E j \in 1..Len(Unwrap(CallMeta.post_token_balances)) :
                   LET e == Unwrap(CallMeta.post_token_balances)[j]
                   IN /\ e.mint = ret.value[k].mint
                      /\ ParseU64(e.amount) = ret.value[k].post_balance
                      /\ e.account_index < Len(call.transaction.account_keys)
                      /\ call.transaction.account_keys[e.account_index + 1]
                            = ret.value[k].address

====
